---- MODULE Spec2Model ----
(***************************************************************************)
(* A model of beeper_triage.beeper_client.BeeperClient: the paginated      *)
(* message listing with its time window (list_messages), the chat listing  *)
(* with its time-boxed file cache (list_chats), and the two pass-through   *)
(* calls get_chat and send_message.                                        *)
(*                                                                         *)
(* Python values read from the SDK's loosely typed records are tagged      *)
(* records [kind, val]; an SDK object is a TLA+ record whose DOMAIN is the *)
(* set of attributes the object has, so hasattr(obj, name) is              *)
(* name \in DOMAIN obj.                                                    *)
(***************************************************************************)
EXTENDS Integers, Sequences, FiniteSets, TLC

\* ------------------------------------------------------------- bounds
\* Messages the source holds over all its pages.
MaxMsgs == 3
\* Pages the source yields (the first one comes with messages.list itself).
MaxPages == 2
\* Message timestamps are 1..MaxTs.
MaxTs == 3
\* limit is None or 1..MaxLimit.
MaxLimit == 2
\* The since_ms a call passes when it passes one.
SinceMs == 2
\* Chats in one answer of chats.list.
MaxChats == 2
\* Times the clock is moved between calls of list_chats.
MaxTicks == 1
\* Lines typed at the action prompt before the input ends.
MaxInputs == 2

\* ------------------------------------------------------ Python values
PyNone == [kind |-> "none"]
PyInt(n) == [kind |-> "int", val |-> n]
PyStr(s) == [kind |-> "str", val |-> s]
PyBool(b) == [kind |-> "bool", val |-> b]
\* A datetime.datetime, held as the microseconds since the epoch (>= 0).
PyDatetime(us) == [kind |-> "datetime", val |-> us]
\* Any other object (an SDK sub-record such as a chat's preview).
PyObj(r) == [kind |-> "obj", val |-> r]
\* A dict with string keys, as a record of its items; a list, as a sequence.
PyDict(r) == [kind |-> "dict", val |-> r]
PyList(q) == [kind |-> "list", val |-> q]

\* Python truthiness, as `x or 0` and bool(x) use it.
Truthy(v) ==
    CASE v.kind = "none" -> FALSE
      [] v.kind = "int" -> v.val # 0
      [] v.kind = "str" -> v.val # ""
      [] v.kind = "bool" -> v.val
      [] OTHER -> TRUE

\* `a or b`
PyOr(a, b) == IF Truthy(a) THEN a ELSE b

\* The outcome of an expression that may raise.
Ok(v) == [ok |-> TRUE, val |-> v]
Raise(e) == [ok |-> FALSE, exc |-> e]

\* The decimal numerals int() is asked to parse in this model.
Numerals == 0..(MaxTs + 1)

\* int(v): an int is itself, a bool is 0 or 1, a string is parsed as a
\* decimal numeral (ValueError when it is none), anything else is a TypeError.
py_int(v) ==
    CASE v.kind = "int" -> Ok(v.val)
      [] v.kind = "bool" -> Ok(IF v.val THEN 1 ELSE 0)
      [] v.kind = "str" ->
            IF \E n \in Numerals : ToString(n) = v.val
            THEN Ok(CHOOSE n \in Numerals : ToString(n) = v.val)
            ELSE Raise("ValueError")
      [] OTHER -> Raise("TypeError")

\* str(v): never raises.
py_str(v) ==
    CASE v.kind = "str" -> v.val
      [] v.kind = "none" -> "None"
      [] v.kind = "int" -> ToString(v.val)
      [] v.kind = "bool" -> (IF v.val THEN "True" ELSE "False")
      [] v.kind = "datetime" -> "datetime(" \o ToString(v.val) \o ")"
      [] OTHER -> "<object>"

\* bool(v)
py_bool(v) == Truthy(v)

\* Lines 101-103 without the loop: only the first name is tried.
GetAttrFirstName(obj, names, default) ==
    IF names # <<>> /\ Head(names) \in DOMAIN obj THEN obj[Head(names)]
    ELSE default

\* BeeperClient._get_attr: the first of `names` the object has, else default.
RECURSIVE get_attr(_, _, _)
get_attr(obj, names, default) ==
    IF names = <<>> THEN default
    ELSE IF Head(names) \in DOMAIN obj THEN obj[Head(names)]
    ELSE get_attr(obj, Tail(names), default)

\* ------------------------------------------------- message normalization
\* Lines 176-183: the timestamp of one raw message, in epoch milliseconds.
MessageTimestamp(msg) ==
    LET timestamp_value ==
            PyOr(get_attr(msg, <<"timestamp_ms", "timestamp">>, PyInt(0)), PyInt(0))
    IN  IF timestamp_value.kind = "datetime"
        THEN Ok(timestamp_value.val \div 1000)
        ELSE py_int(timestamp_value)

\* Lines 186-198: the BeeperMessage built from a raw message and its timestamp.
BeeperMessage(msg, timestamp_ms) ==
    [message_id |-> py_str(get_attr(msg, <<"message_id", "id">>, PyNone)),
     sender_name |-> py_str(get_attr(msg, <<"sender_name", "sender", "author">>,
                                     PyStr("Unknown"))),
     is_sender |-> py_bool(get_attr(msg, <<"is_sender">>, PyBool(FALSE))),
     text |-> py_str(get_attr(msg, <<"text", "body">>, PyStr(""))),
     timestamp_ms |-> timestamp_ms]

\* Lines 172-198 for a whole page: the normalized messages, or the exception
\* the first unconvertible timestamp raises.
RECURSIVE NormalizePage(_)
NormalizePage(page_items) ==
    IF page_items = <<>> THEN Ok(<<>>)
    ELSE LET t == MessageTimestamp(Head(page_items))
         IN  IF ~t.ok THEN t
             ELSE LET rest == NormalizePage(Tail(page_items))
                  IN  IF ~rest.ok THEN rest
                      ELSE Ok(<<BeeperMessage(Head(page_items), t.val)>> \o rest.val)

\* Line 200 with > for >=: a page whose first and last timestamps tie is
\* taken for ascending.
DescendingStrict(msgs) ==
    Len(msgs) < 2 \/ msgs[1].timestamp_ms > msgs[Len(msgs)].timestamp_ms

\* Line 200 with the comparison turned round.
DescendingInverted(msgs) ==
    Len(msgs) < 2 \/ msgs[1].timestamp_ms <= msgs[Len(msgs)].timestamp_ms

\* Line 200: the direction inferred for a page from its timestamps.
Descending(msgs) ==
    Len(msgs) < 2 \/ msgs[1].timestamp_ms >= msgs[Len(msgs)].timestamp_ms

\* min(timestamps), line 219 (of a non-empty page).
MinTimestamp(msgs) ==
    CHOOSE t \in {msgs[i].timestamp_ms : i \in 1..Len(msgs)} :
        \A i \in 1..Len(msgs) : t <= msgs[i].timestamp_ms

\* ---------------------------------------------------- chat normalization
\* Lines 121-126: the preview's is_sender flag, False without a preview.
PreviewIsSender(chat) ==
    LET preview == get_attr(chat, <<"preview">>, PyNone)
    IN  IF preview = PyNone THEN FALSE
        ELSE py_bool(get_attr(IF preview.kind = "obj" THEN preview.val ELSE <<>>,
                              <<"is_sender">>, PyBool(FALSE)))

\* Lines 133-135: int(unread_count or 0).
UnreadCount(chat) ==
    py_int(PyOr(get_attr(chat, <<"unread_count">>, PyInt(0)), PyInt(0)))

\* Lines 127-141: the BeeperChat built from one raw chat, or the exception
\* int() raises.  A BeeperChat holds whatever Python values it was given.
NormalizeChat(chat) ==
    LET unread == UnreadCount(chat)
    IN  IF ~unread.ok THEN unread
        ELSE Ok([chat_id |-> PyStr(py_str(get_attr(chat, <<"chat_id", "id">>, PyNone))),
                 title |-> PyStr(py_str(get_attr(chat, <<"title", "name">>,
                                                 PyStr("(no title)")))),
                 unread_count |-> PyInt(unread.val),
                 preview_is_sender |-> PyBool(PreviewIsSender(chat)),
                 is_muted |-> PyBool(py_bool(get_attr(chat, <<"is_muted", "muted">>,
                                                      PyBool(FALSE))))])

\* Lines 119-141: the loop over the chats of the answer.
RECURSIVE NormalizeChats(_)
NormalizeChats(chats) ==
    IF chats = <<>> THEN Ok(<<>>)
    ELSE LET c == NormalizeChat(Head(chats))
         IN  IF ~c.ok THEN c
             ELSE LET rest == NormalizeChats(Tail(chats))
                  IN  IF ~rest.ok THEN rest
                      ELSE Ok(<<c.val>> \o rest.val)

\* ------------------------------------------------------- the cache file
\* Line 43.
CACHE_TTL_MS == 6 * 60 * 60 * 1000

\* The cache file: absent, present but not readable as JSON, or a JSON value
\* (what json.load makes of it: a dict, a list, a string, a number, None).
NoFile == [kind |-> "missing"]
Unreadable == [kind |-> "unreadable"]
JsonFile(data) == [kind |-> "json", data |-> data]

ChatFields == {"chat_id", "title", "unread_count", "preview_is_sender", "is_muted"}

\* Lines 85-91: the JSON object written for one chat.
ChatToJson(chat) ==
    PyDict([chat_id |-> chat.chat_id,
              title |-> chat.title,
              unread_count |-> chat.unread_count,
              preview_is_sender |-> chat.preview_is_sender,
              is_muted |-> chat.is_muted])

\* Line 73, BeeperChat(**chat): a TypeError unless chat is an object with
\* exactly the fields of BeeperChat.
ChatFromJson(j) ==
    IF j.kind = "dict" /\ DOMAIN j.val = ChatFields
    THEN Ok([f \in ChatFields |-> j.val[f]])
    ELSE Raise("TypeError")

RECURSIVE ChatsFromJson(_)
ChatsFromJson(q) ==
    IF q = <<>> THEN Ok(<<>>)
    ELSE LET c == ChatFromJson(Head(q))
         IN  IF ~c.ok THEN c
             ELSE LET rest == ChatsFromJson(Tail(q))
                  IN  IF ~rest.ok THEN rest
                      ELSE Ok(<<c.val>> \o rest.val)

\* Line 70 with >= for >.
ExpiredAtTtl(now_ms, timestamp_ms) == now_ms - timestamp_ms >= CACHE_TTL_MS

\* Line 70: the snapshot is too old.
Expired(now_ms, timestamp_ms) == now_ms - timestamp_ms > CACHE_TTL_MS

\* Lines 66-73, the body of _get_cache's try block: Ok(PyNone) for an
\* expired snapshot, Ok(chats) for a fresh one, or the exception raised.
ReadCache(file, now_ms) ==
    IF file.kind # "json" THEN Raise("JSONDecodeError")
    ELSE IF file.data.kind # "dict" THEN Raise("AttributeError")
    ELSE LET data == file.data.val
             timestamp_ms == IF "timestamp" \in DOMAIN data THEN data.timestamp
                             ELSE PyInt(0)
             chats_data == IF "chats" \in DOMAIN data THEN data.chats
                           ELSE PyList(<<>>)
         IN  IF timestamp_ms.kind # "int" THEN Raise("TypeError")
             ELSE IF Expired(now_ms, timestamp_ms.val) THEN Ok(PyNone)
             ELSE IF chats_data.kind # "list" THEN Raise("TypeError")
             ELSE LET chats == ChatsFromJson(chats_data.val)
                  IN  IF chats.ok THEN Ok(PyList(chats.val)) ELSE chats

\* Lines 61-75 without the try block: what reading the file raises leaves
\* _get_cache.
GetCacheUnguarded(file, now_ms) ==
    IF file = NoFile THEN Ok(PyNone) ELSE ReadCache(file, now_ms)

\* Lines 61-75, _get_cache: None when the file is missing, expired or
\* raises on the way, else the list of the chats it holds.
GetCache(file, now_ms) ==
    IF file = NoFile THEN Ok(PyNone)
    ELSE LET r == ReadCache(file, now_ms)
         IN  IF r.ok THEN r ELSE Ok(PyNone)

\* Lines 81-83 with the capture time in seconds.
CacheDocumentInSeconds(chats, now_ms) ==
    JsonFile(PyDict([timestamp |-> PyInt(now_ms \div 1000),
                     chats |-> PyList([i \in 1..Len(chats) |->
                                          ChatToJson(chats[i])])]))

\* Lines 82-94: the document _save_cache writes.
CacheDocument(chats, now_ms) ==
    JsonFile(PyDict([timestamp |-> PyInt(now_ms),
                       chats |-> PyList([i \in 1..Len(chats) |->
                                              ChatToJson(chats[i])])]))

\* Lines 77-98, _save_cache: the file after the call, and Ok or the exception
\* that leaves it.  The write may fail before the file is opened (the file
\* is as it was) or after open() truncated it (the file is unreadable);
\* either way the exception is swallowed.
SaveCache(file, chats, now_ms, wr) ==
    [file |-> CASE wr = "ok" -> CacheDocument(chats, now_ms)
                [] wr = "not_opened" -> file
                [] wr = "truncated" -> Unreadable,
     res |-> Ok(PyNone)]

\* chats.list is not called; the cache file is not written.
NoAnswer == [kind |-> "unused"]
NoWrite == "none"

\* ------------------------------------------------------------ the state
VARIABLES
    \* list_messages, get_chat, send_message: one client call per behaviour
    op,                \* the call made: "none", "list_messages", "get_chat", "send_message"
    pc,                \* where the call is: "idle", "iter", "scan", "post", "returned", "raised"
    source,            \* the pages the backend holds, in the order it yields them
    limit,             \* the limit argument: PyNone or PyInt(n)
    since_ms,          \* the since_ms argument: PyNone or PyInt(n)
    results,           \* list_messages' results list
    stopped_for_since, \* list_messages' flag
    yielded,           \* pages iter_pages has yielded so far
    requests,          \* SDK requests the call has made
    normalized,        \* the current page, normalized
    idx,               \* the position of the scan in the current page
    sdk_failed,        \* whether an SDK request of the call failed
    exc,               \* the exception that reached the caller, "" when none
    \* list_chats, called again and again on one cache file
    now,               \* the wall clock, epoch milliseconds
    ticks,             \* times the clock was moved
    cache,             \* the cache file
    use_cache,         \* the last call's argument
    backend,           \* what chats.list answered in the last call
    write,             \* how the last call's cache write went
    chat_requests,     \* SDK requests the last call made
    chats_out,         \* what the last call gave its caller
    \* cli.triage: one run of the command
    t_pc,              \* where the run is (a step of triage, or how it ended)
    stdin,             \* the lines typed at the action prompt, in order
    reads,             \* calls of input() that _pick_action has made
    action,            \* what _pick_action returned, "unset" before it has
    dry_run,           \* the --dry-run option
    no_llm,            \* the --no-llm option
    edited,            \* what edit_text returned, "unset" before it has
    confirm,           \* the answer to "Send this message?", "unset" before
    sends,             \* calls of client.send_message the run has made
    trail              \* the steps the run has taken, in order

msgVars == <<op, pc, source, limit, since_ms, results, stopped_for_since,
             yielded, requests, normalized, idx, sdk_failed, exc>>

chatVars == <<now, ticks, cache, use_cache, backend, write, chat_requests,
              chats_out>>

triageVars == <<t_pc, stdin, reads, action, dry_run, no_llm, edited, confirm,
                sends, trail>>

vars == <<msgVars, chatVars, triageVars>>

\* The triage command is not run.
IdleTriage ==
    /\ t_pc = "idle"
    /\ stdin = <<>>
    /\ reads = 0
    /\ action = "unset"
    /\ dry_run = FALSE
    /\ no_llm = FALSE
    /\ edited = "unset"
    /\ confirm = "unset"
    /\ sends = 0
    /\ trail = <<>>

\* ------------------------------------------------------- the message source
\* A well-formed raw message: the j-th of the stream, sent at timestamp ts.
RawMessage(j, ts) ==
    [message_id |-> PyStr("m" \o ToString(j)),
     sender_name |-> PyStr("Ann"),
     is_sender |-> PyBool(FALSE),
     text |-> PyStr("hi"),
     timestamp_ms |-> PyInt(ts)]

RECURSIVE Sum(_)
Sum(s) == IF s = <<>> THEN 0 ELSE Head(s) + Sum(Tail(s))

\* The ways a stream of n messages is cut into 1..MaxPages pages (a page may
\* be empty).
Pagings(n) ==
    {sz \in UNION {[1..k -> 0..n] : k \in 1..MaxPages} : Sum(sz) = n}

\* The stream cut into pages of the sizes sz.
Paginate(stream, sz) ==
    [p \in 1..Len(sz) |->
        LET off == Sum(SubSeq(sz, 1, p - 1))
        IN  [j \in 1..sz[p] |-> stream[off + j]]]

Streams ==
    UNION {[1..n -> 1..MaxTs] : n \in 0..MaxMsgs}

RawStream(st) == [j \in 1..Len(st) |-> RawMessage(j, st[j])]

\* Sources of well-formed messages: every stream, cut every way.
WellFormedSources ==
    UNION {{Paginate(RawStream(st), sz) : sz \in Pagings(Len(st))} : st \in Streams}

Limits == {PyNone} \cup {PyInt(n) : n \in 1..MaxLimit}
Sinces == {PyNone, PyInt(SinceMs)}

\* ------------------------------------------------------------- the calls
\* No call of list_chats has been made.
IdleChats ==
    /\ now = CACHE_TTL_MS + 1
    /\ ticks = 0
    /\ cache = NoFile
    /\ use_cache = TRUE
    /\ backend = NoAnswer
    /\ write = NoWrite
    /\ chat_requests = 0
    /\ chats_out = [kind |-> "none"]

InitMessages ==
    /\ IdleChats
    /\ IdleTriage
    /\ op = "none"
    /\ pc = "idle"
    /\ source \in WellFormedSources
    /\ limit \in Limits
    /\ since_ms \in Sinces
    /\ results = <<>>
    /\ stopped_for_since = FALSE
    /\ yielded = 0
    /\ requests = 0
    /\ normalized = <<>>
    /\ idx = 0
    /\ sdk_failed = FALSE
    /\ exc = ""

\* Lines 157-165: messages.list answers with the first page, or fails and
\* the failure is raised as BeeperSDKError.
ListMessagesCall ==
    /\ pc = "idle"
    /\ op' = "list_messages"
    /\ requests' = 1
    /\ \E ok \in BOOLEAN :
          /\ sdk_failed' = ~ok
          /\ pc' = IF ok THEN "iter" ELSE "raised"
          /\ exc' = IF ok THEN "" ELSE "BeeperSDKError"
    /\ UNCHANGED <<source, limit, since_ms, results, stopped_for_since,
                   yielded, normalized, idx>>
    /\ UNCHANGED chatVars
    /\ UNCHANGED triageVars

\* Line 169 without its break: an empty page is processed like any other.
EmptyPageIgnored(page_items) == FALSE

\* Line 169: `if not page_items`.
EmptyPage(page_items) == page_items = <<>>

\* Line 203 with <= for <.
BelowOrAtSince(msg) == since_ms.kind # "none" /\ msg.timestamp_ms <= since_ms.val

\* Line 203: the message is older than the window.
BelowSince(msg) == since_ms.kind # "none" /\ msg.timestamp_ms < since_ms.val

\* Lines 209 and 212 with > for >=.
LimitExceeded(res) == limit.kind # "none" /\ Len(res) > limit.val

\* The limit check of lines 209 and 212.
LimitReached(res) == limit.kind # "none" /\ Len(res) >= limit.val

\* Line 208 with the message put in front of the list.
ResultsPrepend(res, msg) == <<msg>> \o res

\* Line 208: results.append(normalized_msg).
ResultsAppend(res, msg) == Append(res, msg)

\* Lines 167-200: iter_pages yields the next page (the first is the one
\* messages.list returned; every later one is a request of its own); the
\* page is normalized and the scan starts.  An exhausted source or an empty
\* page ends the loop.
IterPages ==
    /\ pc = "iter"
    /\ IF yielded = Len(source)
       THEN /\ pc' = "returned"
            /\ UNCHANGED <<yielded, requests, normalized, idx, exc>>
       ELSE LET page_items == source[yielded + 1]
                norm == NormalizePage(page_items)
            IN  /\ yielded' = yielded + 1
                /\ requests' = IF yielded >= 1 THEN requests + 1 ELSE requests
                /\ IF EmptyPage(page_items)
                   THEN pc' = "returned" /\ UNCHANGED <<normalized, idx, exc>>
                   ELSE IF ~norm.ok
                   THEN pc' = "raised" /\ exc' = norm.exc
                        /\ UNCHANGED <<normalized, idx>>
                   ELSE /\ pc' = IF norm.val = <<>> THEN "post" ELSE "scan"
                        /\ normalized' = norm.val
                        /\ idx' = 1
                        /\ UNCHANGED exc
    /\ UNCHANGED <<op, source, limit, since_ms, results, stopped_for_since,
                   sdk_failed>>
    /\ UNCHANGED chatVars
    /\ UNCHANGED triageVars

\* Line 167, when the request for a later page fails: the for statement is
\* outside every try block, so the SDK's own exception leaves list_messages.
IterPagesFails ==
    /\ pc = "iter"
    /\ yielded >= 1
    /\ yielded < Len(source)
    /\ requests' = requests + 1
    /\ sdk_failed' = TRUE
    /\ pc' = "raised"
    /\ exc' = "APIError"
    /\ UNCHANGED <<op, source, limit, since_ms, results, stopped_for_since,
                   yielded, normalized, idx>>
    /\ UNCHANGED chatVars
    /\ UNCHANGED triageVars

\* Lines 202-210: one turn of the scan over the normalized page.
ScanMessage ==
    /\ pc = "scan"
    /\ LET normalized_msg == normalized[idx]
           last == idx = Len(normalized)
       IN  IF BelowSince(normalized_msg)
           THEN IF Descending(normalized)
                THEN /\ stopped_for_since' = TRUE
                     /\ pc' = "post"
                     /\ UNCHANGED <<results, idx>>
                ELSE /\ idx' = idx + 1
                     /\ pc' = IF last THEN "post" ELSE "scan"
                     /\ UNCHANGED <<results, stopped_for_since>>
           ELSE /\ results' = ResultsAppend(results, normalized_msg)
                /\ IF LimitReached(results')
                   THEN pc' = "post" /\ UNCHANGED idx
                   ELSE idx' = idx + 1 /\ pc' = IF last THEN "post" ELSE "scan"
                /\ UNCHANGED stopped_for_since
    /\ UNCHANGED <<op, source, limit, since_ms, yielded, requests, normalized,
                   sdk_failed, exc>>
    /\ UNCHANGED chatVars
    /\ UNCHANGED triageVars

\* Line 219 with <= for <.
RecheckAtBoundary(msgs) ==
    /\ since_ms.kind # "none"
    /\ Descending(msgs)
    /\ msgs # <<>>
    /\ MinTimestamp(msgs) <= since_ms.val

\* Lines 215-220: the re-check after a page (since_ms set, the page
\* descending, its least timestamp below since_ms).
Recheck(msgs) ==
    /\ since_ms.kind # "none"
    /\ Descending(msgs)
    /\ msgs # <<>>
    /\ MinTimestamp(msgs) < since_ms.val

\* Lines 212-222: after the scan of a page, leave the loop or go on.
PostPage ==
    /\ pc = "post"
    /\ IF LimitReached(results) \/ stopped_for_since
       THEN pc' = "returned" /\ UNCHANGED stopped_for_since
       ELSE IF Recheck(normalized)
       THEN pc' = "returned" /\ stopped_for_since' = TRUE
       ELSE pc' = "iter" /\ UNCHANGED stopped_for_since
    /\ UNCHANGED <<op, source, limit, since_ms, results, yielded, requests,
                   normalized, idx, sdk_failed, exc>>
    /\ UNCHANGED chatVars
    /\ UNCHANGED triageVars

\* Lines 146-152 and 226-238: one SDK request; its failure is raised as
\* BeeperSDKError.
PassThrough(name) ==
    /\ pc = "idle"
    /\ op' = name
    /\ requests' = 1
    /\ \E ok \in BOOLEAN :
          /\ sdk_failed' = ~ok
          /\ pc' = IF ok THEN "returned" ELSE "raised"
          /\ exc' = IF ok THEN "" ELSE "BeeperSDKError"
    /\ UNCHANGED <<source, limit, since_ms, results, stopped_for_since,
                   yielded, normalized, idx>>
    /\ UNCHANGED chatVars
    /\ UNCHANGED triageVars

GetChat == PassThrough("get_chat")

SendMessage == PassThrough("send_message")

NextMessages ==
    \/ ListMessagesCall
    \/ IterPages
    \/ IterPagesFails
    \/ ScanMessage
    \/ PostPage
    \/ GetChat
    \/ SendMessage

SpecMessages == InitMessages /\ [][NextMessages]_vars

\* ------------------------------------------------------------ list_chats
\* Raw chats as the SDK may hand them over: one with its title and mute
\* flag under the alternate names and its unread count None; one without id,
\* preview and mute flag whose unread count is no number.
RawChats ==
    {[chat_id |-> PyStr("c1"), name |-> PyStr("Ann"), unread_count |-> PyNone,
      preview |-> PyObj([is_sender |-> PyBool(TRUE)]), muted |-> PyBool(TRUE)],
     [title |-> PyStr("Eve"), unread_count |-> PyStr("many")]}

\* What chats.list may answer: a failure, or up to MaxChats raw chats.
BackendAnswers ==
    {[kind |-> "fail"]} \cup
    {[kind |-> "ok", chats |-> q] : q \in UNION {[1..n -> RawChats] : n \in 0..MaxChats}}

\* How the write of the cache file may go.
WriteOutcomes == {"ok", "not_opened", "truncated"}

\* A chat an earlier run cached.
CachedChat ==
    [chat_id |-> PyStr("c0"), title |-> PyStr("Zoe"), unread_count |-> PyInt(1),
     preview_is_sender |-> PyBool(FALSE), is_muted |-> PyBool(FALSE)]

\* The cache file a run may find: none, one that is no JSON, JSON that is no
\* object, an object without timestamp, with a timestamp that is no number,
\* with chats that are no list, with a chat that lacks a field, and snapshots
\* earlier runs captured at 0, 1 and 2 (the clock starts at CACHE_TTL_MS + 1).
InitialCaches ==
    {NoFile,
     Unreadable,
     JsonFile(PyList(<<>>)),
     JsonFile(PyDict([chats |-> PyList(<<ChatToJson(CachedChat)>>)])),
     JsonFile(PyDict([timestamp |-> PyStr("now"), chats |-> PyList(<<>>)])),
     JsonFile(PyDict([timestamp |-> PyInt(1), chats |-> PyNone])),
     JsonFile(PyDict([timestamp |-> PyInt(1),
                      chats |-> PyList(<<PyDict([chat_id |-> PyStr("c0")])>>)])),
     CacheDocument(<<>>, 0),
     CacheDocument(<<CachedChat>>, 0),
     CacheDocument(<<CachedChat>>, 1),
     CacheDocument(<<CachedChat>>, 2)}

\* No call of list_messages, get_chat or send_message is made.
IdleMessages ==
    /\ op = "none"
    /\ pc = "idle"
    /\ source = <<>>
    /\ limit = PyNone
    /\ since_ms = PyNone
    /\ results = <<>>
    /\ stopped_for_since = FALSE
    /\ yielded = 0
    /\ requests = 0
    /\ normalized = <<>>
    /\ idx = 0
    /\ sdk_failed = FALSE
    /\ exc = ""

InitChats ==
    /\ IdleMessages
    /\ IdleTriage
    /\ now = CACHE_TTL_MS + 1
    /\ ticks = 0
    /\ cache \in InitialCaches
    /\ use_cache = TRUE
    /\ backend = NoAnswer
    /\ write = NoWrite
    /\ chat_requests = 0
    /\ chats_out = [kind |-> "none"]

Return(chats) == [kind |-> "return", chats |-> chats]
Raised(e) == [kind |-> "raise", exc |-> e]

\* Lines 107-110: the call is answered from the cache.
CacheHit(u) == u /\ GetCache(cache, now).ok /\ GetCache(cache, now).val # PyNone

\* Lines 106-144, list_chats(use_cache=u), when chats.list answers b and the
\* cache write goes as w (NoAnswer and NoWrite where the call does not get
\* that far).
ListChats(u, b, w) ==
    LET cached == IF u THEN GetCache(cache, now) ELSE Ok(PyNone) IN
    /\ use_cache' = u
    /\ backend' = b
    /\ write' = w
    /\ chat_requests' = IF b = NoAnswer THEN 0 ELSE 1
    /\ IF ~cached.ok
       THEN chats_out' = Raised(cached.exc) /\ UNCHANGED cache
       ELSE IF cached.val # PyNone
       THEN chats_out' = Return(cached.val.val) /\ UNCHANGED cache
       ELSE IF b.kind = "fail"
       THEN chats_out' = Raised("BeeperSDKError") /\ UNCHANGED cache
       ELSE LET norm == NormalizeChats(b.chats) IN
            IF ~norm.ok
            THEN chats_out' = Raised(norm.exc) /\ UNCHANGED cache
            ELSE LET saved == SaveCache(cache, norm.val, now, w) IN
                 /\ cache' = saved.file
                 /\ chats_out' = IF saved.res.ok THEN Return(norm.val)
                                 ELSE Raised(saved.res.exc)
    /\ UNCHANGED <<now, ticks>>
    /\ UNCHANGED msgVars
    /\ UNCHANGED triageVars

\* A call of list_chats, with the answers the environment gives where the
\* call asks for them.
ListChatsCall ==
    \E u \in BOOLEAN :
        IF CacheHit(u) THEN ListChats(u, NoAnswer, NoWrite)
        ELSE \E b \in BackendAnswers :
                IF b.kind = "ok" /\ NormalizeChats(b.chats).ok
                THEN \E w \in WriteOutcomes : ListChats(u, b, w)
                ELSE ListChats(u, b, NoWrite)

\* Time passes between two calls.
Tick ==
    /\ ticks < MaxTicks
    /\ ticks' = ticks + 1
    /\ \E d \in {1, CACHE_TTL_MS - 1, CACHE_TTL_MS, CACHE_TTL_MS + 1} :
          now' = now + d
    /\ UNCHANGED <<cache, use_cache, backend, write, chat_requests, chats_out>>
    /\ UNCHANGED msgVars
    /\ UNCHANGED triageVars

NextChats == ListChatsCall \/ Tick

SpecChats == InitChats /\ [][NextChats]_vars

\* ------------------------------------------- list_chats: the field names
\* The values a chat's id, title and mute flag may hold, and the fields
\* (unread count, preview) that have one name only.
IdValues == {PyStr("c1"), PyInt(7)}
TitleValues == {PyStr("Ann"), PyNone}
MutedValues == {PyBool(TRUE), PyBool(FALSE), PyNone}
OtherFields ==
    {[unread_count |-> PyInt(2)],
     [unread_count |-> PyNone, preview |-> PyObj([is_sender |-> PyBool(TRUE)])]}

\* One chat as the SDK may expose it: under the names lines 128-139 try
\* first, under the names they try second, and under both.
UnderPrimary(i, t, m, rest) == [chat_id |-> i, title |-> t, is_muted |-> m] @@ rest
UnderAlternate(i, t, m, rest) == [id |-> i, name |-> t, muted |-> m] @@ rest
UnderBoth(i, t, m, rest) ==
    [chat_id |-> i, title |-> t, is_muted |-> m, id |-> i, name |-> t, muted |-> m]
        @@ rest

\* Answers of chats.list holding the same chat three times: under the
\* alternate names, under the primary names, under both.
NamingAnswers ==
    {[kind |-> "ok",
      chats |-> <<UnderAlternate(i, t, m, rest), UnderPrimary(i, t, m, rest),
                  UnderBoth(i, t, m, rest)>>] :
        i \in IdValues, t \in TitleValues, m \in MutedValues, rest \in OtherFields}

InitNames == IdleMessages /\ IdleChats /\ IdleTriage

\* A call of list_chats that is answered from the cache, or by chats.list
\* with one of NamingAnswers.
ListChatsNamed ==
    \E u \in BOOLEAN :
        IF CacheHit(u) THEN ListChats(u, NoAnswer, NoWrite)
        ELSE \E b \in NamingAnswers, w \in WriteOutcomes : ListChats(u, b, w)

NextNames == ListChatsNamed

SpecNames == InitNames /\ [][NextNames]_vars

\* --------------------------------------------------------- cli.triage
\* A line typed at a prompt is the sequence of its characters.  What
\* input() raises instead of returning a line: KeyboardInterrupt for Ctrl-C
\* (EOFError when the input has ended).
CtrlC == <<"^C">>

\* The lines a user may type at the action prompt.
InputLines ==
    {<<>>, <<"1">>, <<"2">>, <<"3">>, <<"4">>, <<" ", "2">>, <<"3", " ">>, <<"x">>}

Whitespace == {" ", "\t"}

\* str.strip(): the line without the blanks at its ends.
RECURSIVE lstrip(_)
lstrip(line) ==
    IF line # <<>> /\ Head(line) \in Whitespace THEN lstrip(Tail(line)) ELSE line

RECURSIVE rstrip(_)
rstrip(line) ==
    IF line # <<>> /\ line[Len(line)] \in Whitespace
    THEN rstrip(SubSeq(line, 1, Len(line) - 1))
    ELSE line

strip(line) == rstrip(lstrip(line))

\* cli.py lines 143-149: what _pick_action makes of one choice; "invalid"
\* when it asks again.
PickChoice(choice) ==
    CASE choice = <<>> \/ choice = <<"1">> -> "reply"
      [] choice = <<"2">> -> "copy"
      [] choice = <<"3">> -> "export"
      [] OTHER -> "invalid"

\* The chats client.list_chats may return to triage, by the two fields
\* triage filters on.
TriageChats == [is_muted : BOOLEAN, preview_is_sender : BOOLEAN]
TriageChatLists == UNION {[1..n -> TriageChats] : n \in 0..2}

\* cli.py lines 56-57.
needs_reply(preview_is_sender) == ~preview_is_sender

\* cli.py lines 312-319: the chats left to choose from (max_chats >= 1 cuts
\* the list but never empties it).
Filtered(chats, include_muted) ==
    SelectSeq(chats, LAMBDA chat :
        ~(~include_muted /\ chat.is_muted) /\ needs_reply(chat.preview_is_sender))

InitTriage ==
    /\ IdleMessages
    /\ IdleChats
    /\ t_pc = "setup"
    /\ stdin \in UNION {[1..n -> InputLines \cup {CtrlC}] : n \in 0..MaxInputs}
    /\ reads = 0
    /\ action = "unset"
    /\ dry_run \in BOOLEAN
    /\ no_llm \in BOOLEAN
    /\ edited = "unset"
    /\ confirm = "unset"
    /\ sends = 0
    /\ trail = <<>>

\* The run goes on to `next`, having taken the step `event`.
Goes(next, event) ==
    /\ t_pc' = next
    /\ trail' = Append(trail, event)

\* cli.py lines 285-304: fzf, the access token and the client are there, or
\* the run ends with BadParameter.
Setup ==
    /\ t_pc = "setup"
    /\ \E ok \in BOOLEAN :
          IF ok THEN Goes("list_chats", "setup")
          ELSE Goes("bad_parameter", "setup failed")
    /\ UNCHANGED <<stdin, reads, action, dry_run, no_llm, edited, confirm, sends>>
    /\ UNCHANGED <<msgVars, chatVars>>

\* cli.py lines 306-323: list the chats and keep those that need a reply.
\* BeeperSDKError becomes BadParameter; any other exception of list_chats is
\* caught nowhere.
TriageListChats ==
    /\ t_pc = "list_chats"
    /\ \/ Goes("bad_parameter", "list_chats: BeeperSDKError")
       \/ Goes("crashed", "list_chats: ValueError")
       \/ \E chats \in TriageChatLists, include_muted \in BOOLEAN :
             IF Filtered(chats, include_muted) = <<>>
             THEN Goes("exit0", "no chats need reply")
             ELSE Goes("pick_chat", "chats")
    /\ UNCHANGED <<stdin, reads, action, dry_run, no_llm, edited, confirm, sends>>
    /\ UNCHANGED <<msgVars, chatVars>>

\* cli.py lines 325-330: fzf gives the chat chosen, or none.
PickChat ==
    /\ t_pc = "pick_chat"
    /\ \E selected \in BOOLEAN :
          IF selected THEN Goes("window", "chat selected")
          ELSE Goes("exit0", "no chat selected")
    /\ UNCHANGED <<stdin, reads, action, dry_run, no_llm, edited, confirm, sends>>
    /\ UNCHANGED <<msgVars, chatVars>>

\* cli.py lines 332-339: the message window, asked for or given as an
\* option: the prompt may be cancelled, the option may be invalid.
MessageWindow ==
    /\ t_pc = "window"
    /\ \/ Goes("exit0", "window cancelled")
       \/ Goes("bad_parameter", "window invalid")
       \/ Goes("list_messages", "window")
    /\ UNCHANGED <<stdin, reads, action, dry_run, no_llm, edited, confirm, sends>>
    /\ UNCHANGED <<msgVars, chatVars>>

\* cli.py lines 341-358: fetch the messages and format the transcript.
\* BeeperSDKError becomes BadParameter; the exceptions list_messages lets
\* through unwrapped are caught nowhere; an empty transcript ends the run.
TriageListMessages ==
    /\ t_pc = "list_messages"
    /\ \/ Goes("bad_parameter", "list_messages: BeeperSDKError")
       \/ Goes("crashed", "list_messages: APIError")
       \/ Goes("exit0", "empty transcript")
       \/ Goes("pick_action", "transcript")
    /\ UNCHANGED <<stdin, reads, action, dry_run, no_llm, edited, confirm, sends>>
    /\ UNCHANGED <<msgVars, chatVars>>

\* cli.py lines 136-151 and 360-363, one turn of _pick_action's loop: input()
\* returns the next line or raises; a valid choice is returned to triage, which
\* goes where the action leads; None ends the run.
PickAction ==
    /\ t_pc = "pick_action"
    /\ IF reads = Len(stdin) \/ stdin[reads + 1] = CtrlC
       THEN /\ action' = "None"
            /\ Goes("exit0", "action: None")
       ELSE LET picked == PickChoice(strip(stdin[reads + 1]))
            IN  IF picked = "invalid"
                THEN /\ action' = action
                     /\ Goes("pick_action", "invalid choice")
                ELSE /\ action' = picked
                     /\ Goes(picked, "action: " \o picked)
    /\ reads' = reads + 1
    /\ UNCHANGED <<stdin, dry_run, no_llm, edited, confirm, sends>>
    /\ UNCHANGED <<msgVars, chatVars>>

\* cli.py lines 365-378: copy the transcript to the clipboard.
Copy ==
    /\ t_pc = "copy"
    /\ \/ Goes("exit1", "no clipboard tool")
       \/ Goes("bad_parameter", "clipboard copy failed")
       \/ Goes("exit0", "copied")
    /\ UNCHANGED <<stdin, reads, action, dry_run, no_llm, edited, confirm, sends>>
    /\ UNCHANGED <<msgVars, chatVars>>

\* cli.py lines 380-384: export the transcript to a folder; an OSError of
\* the export is caught nowhere.
Export ==
    /\ t_pc = "export"
    /\ \/ Goes("crashed", "export: OSError")
       \/ Goes("exit0", "exported")
    /\ UNCHANGED <<stdin, reads, action, dry_run, no_llm, edited, confirm, sends>>
    /\ UNCHANGED <<msgVars, chatVars>>

\* cli.py lines 387-404: the draft, empty with --no-llm, else asked of the
\* language model (no model, no API key and OpenRouterError end the run).
Draft ==
    /\ t_pc = "reply"
    /\ IF no_llm THEN Goes("edit", "draft: empty")
       ELSE \/ Goes("bad_parameter", "no model")
            \/ Goes("bad_parameter", "no API key")
            \/ Goes("bad_parameter", "OpenRouterError")
            \/ Goes("edit", "draft: llm")
    /\ UNCHANGED <<stdin, reads, action, dry_run, no_llm, edited, confirm, sends>>
    /\ UNCHANGED <<msgVars, chatVars>>

\* cli.py lines 406-414: the user edits the draft; EditorError ends the run
\* and so does an empty message.
Edit ==
    /\ t_pc = "edit"
    /\ \/ Goes("bad_parameter", "EditorError") /\ UNCHANGED edited
       \/ \E text \in {"", "ok, see you"} :
             /\ edited' = text
             /\ IF text = "" THEN Goes("exit0", "empty message")
                ELSE Goes("confirm", "edited")
    /\ UNCHANGED <<stdin, reads, action, dry_run, no_llm, confirm, sends>>
    /\ UNCHANGED <<msgVars, chatVars>>

\* cli.py line 424 with the dry-run check left out.
DryRunIgnored(d) == FALSE

\* cli.py line 424: `if dry_run`.
DryRunStops(d) == d

\* cli.py lines 416-426: "Send this message?" (Ctrl-C aborts the run), then
\* the dry-run check.
Confirm ==
    /\ t_pc = "confirm"
    /\ \/ Goes("aborted", "confirm: aborted") /\ UNCHANGED confirm
       \/ \E yes \in BOOLEAN :
             /\ confirm' = IF yes THEN "yes" ELSE "no"
             /\ IF ~yes THEN Goes("exit0", "declined")
                ELSE IF DryRunStops(dry_run) THEN Goes("exit0", "confirmed, dry run")
                ELSE Goes("send", "confirmed")
    /\ UNCHANGED <<stdin, reads, action, dry_run, no_llm, edited, sends>>
    /\ UNCHANGED <<msgVars, chatVars>>

\* cli.py lines 428-434: client.send_message is called; its BeeperSDKError
\* becomes BadParameter.
Send ==
    /\ t_pc = "send"
    /\ sends' = sends + 1
    /\ \/ Goes("bad_parameter", "send_message: BeeperSDKError")
       \/ Goes("sent", "send_message")
    /\ UNCHANGED <<stdin, reads, action, dry_run, no_llm, edited, confirm>>
    /\ UNCHANGED <<msgVars, chatVars>>

NextTriage ==
    \/ Setup
    \/ TriageListChats
    \/ PickChat
    \/ MessageWindow
    \/ TriageListMessages
    \/ PickAction
    \/ Copy
    \/ Export
    \/ Draft
    \/ Edit
    \/ Confirm
    \/ Send

SpecTriage == InitTriage /\ [][NextTriage]_vars

\* ------------------------------------------------- list_chats: the claims
\* The file is a snapshot as _save_cache leaves one: an object with a
\* numeric timestamp and a list of chats, each with exactly BeeperChat's
\* fields.
IsSnapshot(file) ==
    /\ file.kind = "json"
    /\ file.data.kind = "dict"
    /\ DOMAIN file.data.val = {"timestamp", "chats"}
    /\ file.data.val.timestamp.kind = "int"
    /\ file.data.val.chats.kind = "list"
    /\ \A i \in 1..Len(file.data.val.chats.val) :
          /\ file.data.val.chats.val[i].kind = "dict"
          /\ DOMAIN file.data.val.chats.val[i].val = ChatFields

CapturedAt(file) == file.data.val.timestamp.val

SnapshotChats(file) ==
    [i \in 1..Len(file.data.val.chats.val) |-> file.data.val.chats.val[i].val]

\* The snapshot of `chats` captured at time t.
SnapshotOf(chats, t) ==
    JsonFile(PyDict([timestamp |-> PyInt(t),
                     chats |-> PyList([i \in 1..Len(chats) |-> PyDict(chats[i])])]))

\* The file cannot be read as a snapshot: it is missing, is no JSON, or is
\* JSON of another shape (no object, a timestamp that is no number, chats
\* that are no list of chat objects).
CacheBroken(file) ==
    \/ file = NoFile
    \/ file = Unreadable
    \/ /\ file.kind = "json"
       /\ \/ file.data.kind # "dict"
          \/ /\ "timestamp" \in DOMAIN file.data.val
             /\ file.data.val.timestamp.kind # "int"
          \/ /\ "chats" \in DOMAIN file.data.val
             /\ \/ file.data.val.chats.kind # "list"
                \/ \E i \in 1..Len(file.data.val.chats.val) :
                      \/ file.data.val.chats.val[i].kind # "dict"
                      \/ DOMAIN file.data.val.chats.val[i].val # ChatFields

\* The step is a call of list_chats (the clock stands still during it).
CallStep == now' = now /\ chats_out'.kind # "none"

\* C5: a cache-permitted call made while now - T <= ttl, T the capture time
\* of the snapshot in the cache, returns the snapshot's chats unchanged, makes
\* no backend call and leaves the file alone; one made while now - T > ttl
\* fetches from the backend.
C5_Step ==
    (CallStep /\ use_cache' /\ IsSnapshot(cache)) =>
        IF now - CapturedAt(cache) <= CACHE_TTL_MS
        THEN /\ chats_out' = Return(SnapshotChats(cache))
             /\ chat_requests' = 0
             /\ cache' = cache
        ELSE chat_requests' = 1

C5_CacheTtl == [][C5_Step]_vars

\* A snapshot a call captured is returned from the cache exactly ttl later.
C5_Witness ==
    /\ ticks = 1
    /\ IsSnapshot(cache)
    /\ now - CapturedAt(cache) = CACHE_TTL_MS
    /\ CapturedAt(cache) = CACHE_TTL_MS + 1
    /\ use_cache
    /\ chat_requests = 0
    /\ chats_out = Return(SnapshotChats(cache))
    /\ Len(chats_out.chats) = 2

\* The chats the caller is given for the backend's answer.
Fetched(b) == NormalizeChats(b.chats).val

\* C6: a call that finds the cache file missing or unreadable as a snapshot
\* fetches from the backend, and one whose cache write fails still returns
\* the fetched normalized list; a call raises only when the backend call
\* fails or a record of its answer cannot be normalized.
C6_Step ==
    CallStep =>
        /\ (use_cache' /\ CacheBroken(cache)) =>
              /\ chat_requests' = 1
              /\ backend' # NoAnswer
        /\ write' \in {"not_opened", "truncated"} =>
              chats_out' = Return(Fetched(backend'))
        /\ chats_out'.kind = "raise" =>
              /\ backend' # NoAnswer
              /\ \/ backend'.kind = "fail"
                 \/ ~NormalizeChats(backend'.chats).ok

C6_CacheFailOpen == [][C6_Step]_vars

\* A call that found an unreadable cache file fetched two chats, failed to
\* write them and returned them.
C6_Witness ==
    /\ use_cache
    /\ cache = Unreadable
    /\ write = "truncated"
    /\ backend.kind = "ok"
    /\ chats_out.kind = "return"
    /\ Len(chats_out.chats) = 2

\* C8: a malformed chat or message record never aborts the listing: when the
\* backend answers, the call returns one chat per record of the answer (and
\* list_messages raises only when an SDK request fails).
C8_NoAbort ==
    /\ backend.kind = "ok" =>
          /\ chats_out.kind = "return"
          /\ Len(chats_out.chats) = Len(backend.chats)
    /\ (op = "list_messages" /\ pc = "raised") => sdk_failed

\* C9 as claimed: every call whose backend fetch succeeds (and whose answer
\* can be normalized) leaves the cache holding the snapshot of the normalized
\* list captured now; every other step leaves the file as it was.
C9_OriginalStep ==
    IF CallStep /\ backend'.kind = "ok" /\ NormalizeChats(backend'.chats).ok
    THEN cache' = SnapshotOf(Fetched(backend'), now)
    ELSE cache' = cache

C9_Original == [][C9_OriginalStep]_vars

\* C9, amended: every call that returns a freshly fetched list has tried to
\* write the cache before returning; when the write succeeds the file holds
\* the snapshot of the returned list captured now, when it fails the file is
\* as it was or is left unreadable.  The file changes at no other time: a
\* cache hit, a failed backend fetch, a call that raises and the passing of
\* time leave it as it was.
C9_Step ==
    /\ (CallStep /\ backend'.kind = "ok" /\ chats_out'.kind = "return") =>
          write' \in WriteOutcomes
    /\ CASE CallStep /\ write' = "ok" ->
                /\ chats_out' = Return(Fetched(backend'))
                /\ cache' = SnapshotOf(chats_out'.chats, now)
         [] CallStep /\ write' = "truncated" -> ~IsSnapshot(cache')
         [] OTHER -> cache' = cache

C9_CacheWrites == [][C9_Step]_vars

\* A call without use_cache replaced a fresh snapshot by the one it fetched.
C9_Witness ==
    /\ ~use_cache
    /\ write = "ok"
    /\ ticks = 1
    /\ now = CACHE_TTL_MS + 2
    /\ chats_out.kind = "return"
    /\ Len(chats_out.chats) = 1
    /\ cache = SnapshotOf(chats_out.chats, now)

\* ---------------------------------------------- list_messages: the claims
\* What the claims say, read off the source's raw pages (not off the
\* model's normalized copies).
SrcTs(p, j) == source[p][j].timestamp_ms.val
SrcId(p, j) == source[p][j].message_id.val
ResultIds == [i \in 1..Len(results) |-> results[i].message_id]
SinceSet == since_ms # PyNone
NoLimit == limit = PyNone

\* The page is "descending": fewer than two messages, or first >= last.
ClaimDescending(p) ==
    Len(source[p]) < 2 \/ SrcTs(p, 1) >= SrcTs(p, Len(source[p]))

\* The message is in the window: not strictly older than since_ms.
InWindow(p, j) == ~SinceSet \/ SrcTs(p, j) >= since_ms.val

\* The position of the first message of page p older than since_ms; 0 when
\* there is none.
FirstBelow(p) ==
    LET below == {j \in 1..Len(source[p]) : ~InWindow(p, j)}
    IN  IF below = {} THEN 0
        ELSE CHOOSE j \in below : \A k \in below : j <= k

\* The ids of the messages of page p that are in the window, in page order.
RECURSIVE KeptUpTo(_, _)
KeptUpTo(p, j) ==
    IF j = 0 THEN <<>>
    ELSE IF InWindow(p, j) THEN Append(KeptUpTo(p, j - 1), SrcId(p, j))
    ELSE KeptUpTo(p, j - 1)

KeptIds(p) == KeptUpTo(p, Len(source[p]))

\* The ids of the first j messages of page p.
FirstIds(p, j) == [i \in 1..j |-> SrcId(p, i)]

\* The in-window ids of pages 1..n, in fetch order.
RECURSIVE KeptThrough(_)
KeptThrough(n) == IF n = 0 THEN <<>> ELSE KeptThrough(n - 1) \o KeptIds(n)

Take(seq, n) == SubSeq(seq, 1, IF n < Len(seq) THEN n ELSE Len(seq))

Running == pc \in {"iter", "scan", "post"}
ScanOver == pc \in {"post", "returned"}

\* C1: with since_ms set and no limit, a descending page whose k-th message
\* is its first one older than since_ms adds exactly its first k-1 messages
\* to the result (after everything in the window of the pages before it), and
\* it is the last page fetched: no request follows it.
C1_DescendingStop ==
    (op = "list_messages" /\ SinceSet /\ NoLimit) =>
        \A p \in 1..yielded :
            (ClaimDescending(p) /\ FirstBelow(p) >= 1) =>
                /\ yielded = p
                /\ requests = p
                /\ pc \in {"scan", "post", "returned"}
                /\ ScanOver =>
                     ResultIds = KeptThrough(p - 1) \o FirstIds(p, FirstBelow(p) - 1)

\* A call that returned after a descending page cut at its second message,
\* with a page left in the source that was never asked for.
C1_Witness ==
    /\ op = "list_messages" /\ pc = "returned" /\ SinceSet /\ NoLimit
    /\ yielded >= 1 /\ yielded < Len(source)
    /\ source[yielded + 1] # <<>>
    /\ ClaimDescending(yielded) /\ FirstBelow(yielded) = 2
    /\ ResultIds = <<SrcId(yielded, 1)>>

\* The last page iter_pages yielded is a non-empty ascending page whose
\* scan is over, in a call with since_ms set.
AfterAscendingPage ==
    /\ op = "list_messages" /\ SinceSet /\ ScanOver
    /\ yielded >= 1
    /\ source[yielded] # <<>>
    /\ ~ClaimDescending(yielded)

InResult(id) == \E i \in 1..Len(results) : ResultIds[i] = id

\* C2 as claimed: after an ascending page, every message of the page that is
\* in the window is in the result, none of the older ones is, and the skips
\* have not stopped the pagination.
C2_Original ==
    AfterAscendingPage =>
        /\ \A j \in 1..Len(source[yielded]) :
              InResult(SrcId(yielded, j)) <=> InWindow(yielded, j)
        /\ ~stopped_for_since

\* C2, amended: after an ascending page the result is everything in the
\* window of the pages so far, in order, cut at the limit when there is one:
\* the older messages are skipped one by one and the in-window ones around
\* them are appended until the limit is reached.  The skips never set the
\* stop flag, and the call returns before the source is exhausted only when
\* the limit is reached.
C2_AscendingSkip ==
    AfterAscendingPage =>
        /\ ResultIds = IF NoLimit THEN KeptThrough(yielded)
                       ELSE Take(KeptThrough(yielded), limit.val)
        /\ ~stopped_for_since
        /\ (pc = "returned" /\ yielded < Len(source)) =>
              (~NoLimit /\ Len(results) = limit.val)

\* An ascending page with an in-window message before and after a skipped
\* one has been scanned, and the loop is about to ask for the next page.
C2_Witness ==
    /\ op = "list_messages" /\ SinceSet /\ pc = "iter"
    /\ yielded = 1 /\ Len(source[1]) = 3
    /\ ~ClaimDescending(1)
    /\ InWindow(1, 1) /\ ~InWindow(1, 2) /\ InWindow(1, 3)
    /\ ResultIds = <<SrcId(1, 1), SrcId(1, 3)>>

\* Everything in the window that the source holds, in source order.
AllKept == KeptThrough(Len(source))

\* The page holding the n-th in-window message of the source, and the
\* position of that message in it.
PageOfNth(n) ==
    CHOOSE p \in 1..Len(source) :
        Len(KeptThrough(p)) >= n /\ Len(KeptThrough(p - 1)) < n

PosOfNth(n) ==
    CHOOSE j \in 1..Len(source[PageOfNth(n)]) :
        /\ InWindow(PageOfNth(n), j)
        /\ Len(KeptThrough(PageOfNth(n) - 1)) + Len(KeptUpTo(PageOfNth(n), j)) = n

\* Pagination ends before the n-th in-window message is reached: an empty
\* page comes before its page, or a message older than since_ms comes before
\* it on a descending page.
CutShort(n) ==
    \E p \in 1..PageOfNth(n) :
        \/ p < PageOfNth(n) /\ source[p] = <<>>
        \/ /\ SinceSet /\ ClaimDescending(p)
           /\ \E j \in 1..Len(source[p]) :
                 ~InWindow(p, j) /\ (p < PageOfNth(n) \/ j < PosOfNth(n))

LimitedReturn ==
    /\ op = "list_messages" /\ pc = "returned"
    /\ ~NoLimit
    /\ Len(AllKept) > limit.val

\* C3 as claimed: with limit N and more than N in-window messages in the
\* source, the call returns exactly N messages and the last page fetched is
\* the one holding the N-th of them.
C3_Original ==
    LimitedReturn =>
        /\ Len(results) = limit.val
        /\ yielded = PageOfNth(limit.val)

\* C3, amended: the result never holds more than N messages; with more than
\* N in-window messages in the source, the call returns exactly the first N
\* of them and fetches no page after the one holding the N-th, unless the
\* pagination ends before the N-th is reached (an empty page before its page,
\* or an older message before it on a descending page).
C3_LimitStops ==
    /\ (op = "list_messages" /\ ~NoLimit) => Len(results) <= limit.val
    /\ (LimitedReturn /\ ~CutShort(limit.val)) =>
          /\ ResultIds = Take(AllKept, limit.val)
          /\ yielded = PageOfNth(limit.val)
          /\ requests = yielded

\* A call with a limit returned exactly that many messages, with more of
\* them and one more page left in the source.
C3_Witness ==
    /\ LimitedReturn /\ ~CutShort(limit.val)
    /\ Len(results) = limit.val
    /\ yielded < Len(source)
    /\ source[yielded + 1] # <<>>

\* The first empty page ends the pagination: it is the last page yielded,
\* no request follows it, and the call has returned.
EmptyPageIsLast ==
    op = "list_messages" =>
        \A p \in 1..yielded :
            source[p] = <<>> =>
                yielded = p /\ requests = p /\ pc = "returned"

\* The step that yields an empty page returns what was accumulated.
EmptyPageStep ==
    (pc = "iter" /\ yielded' = yielded + 1 /\ source[yielded'] = <<>>) =>
        (pc' = "returned" /\ results' = results)

\* How far the call has got: pages yielded first, then the place in the
\* turn of the loop.
Rank ==
    (MaxMsgs + 5) * yielded +
        CASE pc = "idle" -> 0
          [] pc = "scan" -> idx
          [] pc = "post" -> MaxMsgs + 2
          [] pc = "iter" -> MaxMsgs + 3
          [] OTHER -> MaxMsgs + 4

\* Every step of the call gets it further, and the call goes on until it
\* has returned or raised: it cannot loop for ever over a finite prefix of
\* the source.
CallAdvances == Rank' > Rank /\ (Running => ENABLED NextMessages)'

\* C4: whatever limit and since_ms are, the first empty page the source
\* yields ends the pagination: the call has returned when it is yielded, no
\* later page is fetched and the result is what was accumulated before it;
\* as every step before it advances the call, a call on a source that yields
\* an empty page terminates.
C4_EmptyPageEnds ==
    /\ []EmptyPageIsLast
    /\ [][EmptyPageStep /\ CallAdvances]_vars

\* A call with a limit and since_ms returned at an empty first page, with a
\* non-empty page after it in the source that was never asked for.
C4_Witness ==
    /\ op = "list_messages" /\ pc = "returned"
    /\ SinceSet /\ ~NoLimit
    /\ yielded = 1 /\ requests = 1
    /\ source[1] = <<>>
    /\ Len(source) = 2 /\ source[2] # <<>>

\* A failed SDK request reaches the caller as BeeperSDKError, and it was the
\* call's last request.
C7_UniformFailure ==
    sdk_failed =>
        /\ pc = "raised"
        /\ exc = "BeeperSDKError"
        /\ requests = yielded + 1

\* No message of the result is older than since_ms: each is a message of the
\* source with its timestamp, and that timestamp is >= since_ms.
ResultsInWindow ==
    (op = "list_messages" /\ SinceSet) =>
        \A i \in 1..Len(results) :
            \E p \in 1..yielded : \E j \in 1..Len(source[p]) :
                /\ SrcId(p, j) = ResultIds[i]
                /\ results[i].timestamp_ms = SrcTs(p, j)
                /\ SrcTs(p, j) >= since_ms.val

\* A scanned message whose timestamp equals since_ms is appended.
BoundaryKept ==
    (pc = "scan" /\ SinceSet /\ SrcTs(yielded, idx) = since_ms.val) =>
        /\ Len(results') = Len(results) + 1
        /\ results'[Len(results')].message_id = SrcId(yielded, idx)
        /\ results'[Len(results')].timestamp_ms = since_ms.val

\* C10: at every point of the pagination and in the final result, no
\* message of the result is older than since_ms, whatever the directions and
\* sizes of the pages and the limit; a message sent exactly at since_ms is
\* kept.
C10_Window ==
    /\ []ResultsInWindow
    /\ [][BoundaryKept]_vars

\* A result holding a message sent exactly at since_ms, from a source that
\* has yielded an older message.
C10_Witness ==
    /\ op = "list_messages" /\ SinceSet /\ pc = "returned"
    /\ \E i \in 1..Len(results) : results[i].timestamp_ms = since_ms.val
    /\ \E p \in 1..yielded : \E j \in 1..Len(source[p]) : ~InWindow(p, j)
    /\ Len(results) >= 2

\* The ids and timestamps of the pages iter_pages has yielded, end to end
\* in the order they were fetched.
RECURSIVE FetchedThrough(_)
FetchedThrough(n) ==
    IF n = 0 THEN <<>>
    ELSE FetchedThrough(n - 1) \o
         [j \in 1..Len(source[n]) |-> <<SrcId(n, j), SrcTs(n, j)>>]

ResultPairs ==
    [i \in 1..Len(results) |-> <<results[i].message_id, results[i].timestamp_ms>>]

\* a is b with some of its elements left out.
RECURSIVE IsSubsequence(_, _)
IsSubsequence(a, b) ==
    IF a = <<>> THEN TRUE
    ELSE IF b = <<>> THEN FALSE
    ELSE IF Head(a) = Head(b) THEN IsSubsequence(Tail(a), Tail(b))
    ELSE IsSubsequence(a, Tail(b))

\* C11: the result of list_messages is a subsequence of the pages fetched so
\* far, put end to end in fetch order: the messages that survive keep their
\* source order within and across pages, each is a message the source
\* yielded, none appears twice, and nothing is sorted by timestamp.
C11_SourceOrder ==
    op = "list_messages" =>
        /\ IsSubsequence(ResultPairs, FetchedThrough(yielded))
        /\ \A i, k \in 1..Len(results) :
              ResultIds[i] = ResultIds[k] => i = k

\* A result over two pages whose timestamps go up and then down: it is in
\* source order and in no order of time.
C11_Witness ==
    /\ op = "list_messages" /\ pc = "returned"
    /\ yielded = 2
    /\ Len(source[1]) = 2 /\ Len(source[2]) = 1
    /\ Len(results) = 3
    /\ results[1].timestamp_ms < results[2].timestamp_ms
    /\ results[2].timestamp_ms > results[3].timestamp_ms
    /\ ResultIds = <<SrcId(1, 1), SrcId(1, 2), SrcId(2, 1)>>

\* ------------------------------------------ list_chats: the field names
PrimaryNames == {"chat_id", "title", "is_muted"}
AlternateNames == {"id", "name", "muted"}

\* The answer holds one chat three times with the same values: first
\* under the alternate names only, then under the primary names only, then
\* under both.
SameChatThreeWays(b) ==
    /\ b.kind = "ok" /\ Len(b.chats) = 3
    /\ LET a == b.chats[1]
           p == b.chats[2]
           both == b.chats[3]
       IN  /\ DOMAIN a \cap PrimaryNames = {} /\ AlternateNames \subseteq DOMAIN a
           /\ DOMAIN p \cap AlternateNames = {} /\ PrimaryNames \subseteq DOMAIN p
           /\ PrimaryNames \cup AlternateNames \subseteq DOMAIN both
           /\ a.id = p.chat_id /\ a.name = p.title /\ a.muted = p.is_muted
           /\ both.id = p.chat_id /\ both.name = p.title /\ both.muted = p.is_muted
           /\ both.chat_id = p.chat_id /\ both.title = p.title
           /\ both.is_muted = p.is_muted
           /\ \A f \in {"unread_count", "preview"} :
                 /\ f \in DOMAIN a <=> f \in DOMAIN p
                 /\ f \in DOMAIN both <=> f \in DOMAIN p
                 /\ f \in DOMAIN p => (a[f] = p[f] /\ both[f] = p[f])

\* C12: a chat exposing its id, title and mute flag under the alternate
\* names (id, name, muted) is normalized to the same BeeperChat as one
\* exposing the same values under the primary names (chat_id, title,
\* is_muted), and as one exposing them under both.
C12_AlternateNames ==
    SameChatThreeWays(backend) =>
        /\ chats_out.kind = "return"
        /\ Len(chats_out.chats) = 3
        /\ chats_out.chats[1] = chats_out.chats[2]
        /\ chats_out.chats[3] = chats_out.chats[2]

\* The three forms of a muted chat "c1" titled "Ann" were normalized to
\* one and the same chat, which has these values and not the defaults.
C12_Witness ==
    /\ SameChatThreeWays(backend)
    /\ backend.chats[1].id = PyStr("c1")
    /\ backend.chats[1].name = PyStr("Ann")
    /\ backend.chats[1].muted = PyBool(TRUE)
    /\ chats_out.kind = "return"
    /\ chats_out.chats[1] = chats_out.chats[3]
    /\ chats_out.chats[1].chat_id = PyStr("c1")
    /\ chats_out.chats[1].title = PyStr("Ann")
    /\ chats_out.chats[1].is_muted = PyBool(TRUE)

\* ---------------------------------------------------- triage: the claims
\* The text of a typed line, blanks left out.
Typed(line) == SelectSeq(line, LAMBDA c : c \notin {" ", "\t"})

\* _pick_action has returned.
Picked == action # "unset"

\* The choice the claim has _pick_action accept on a line, "again" when it
\* has it ask again.
ClaimedChoice(line) ==
    CASE Typed(line) \in {<<>>, <<"1">>} -> "reply"
      [] Typed(line) = <<"2">> -> "copy"
      [] OTHER -> "again"

\* C13: _pick_action asks until it reads a valid choice and returns only
\* "reply" (for "" or "1"), "copy" (for "2") or None (Ctrl-C, end of input);
\* every other line, "3" too, is rejected and the prompt comes again, so
\* that the lines "3", "2" give "copy".
C13_PickAction ==
    /\ action \in {"unset", "reply", "copy", "None"}
    /\ Picked =>
          /\ \A i \in 1..(reads - 1) :
                stdin[i] # CtrlC /\ ClaimedChoice(stdin[i]) = "again"
          /\ action = IF reads > Len(stdin) \/ stdin[reads] = CtrlC THEN "None"
                      ELSE ClaimedChoice(stdin[reads])
    /\ (Picked /\ stdin = <<(<<"3">>), (<<"2">>)>>) =>
          (action = "copy" /\ reads = 2)

\* The place of the step in the trail, 0 when the run has not taken it.
StepAt(event) ==
    IF \E i \in 1..Len(trail) : trail[i] = event
    THEN CHOOSE i \in 1..Len(trail) :
            trail[i] = event /\ \A k \in 1..(i - 1) : trail[k] # event
    ELSE 0

SendAt ==
    IF StepAt("send_message") > 0 THEN StepAt("send_message")
    ELSE StepAt("send_message: BeeperSDKError")

\* The run has called send_message only after the action was reply, then
\* the draft was edited to a non-empty text, then the user confirmed, with
\* dry_run false.
SentInOrder ==
    /\ action = "reply" /\ edited \notin {"unset", ""} /\ confirm = "yes"
    /\ ~dry_run
    /\ 0 < StepAt("action: reply")
    /\ StepAt("action: reply") < StepAt("edited")
    /\ StepAt("edited") < StepAt("confirmed")
    /\ StepAt("confirmed") < SendAt

\* The run is on, or has ended on, a path that sends nothing: it ended
\* before the call of send_message, or it chose copy or export, or the
\* action prompt was cancelled, or the draft was left empty, or the user
\* declined, or it is a dry run.
NoSendPath ==
    \/ t_pc \in {"exit0", "exit1", "crashed", "aborted"}
    \/ t_pc = "bad_parameter" /\ trail[Len(trail)] # "send_message: BeeperSDKError"
    \/ action \in {"None", "copy", "export"}
    \/ edited = ""
    \/ confirm = "no"
    \/ dry_run

\* A step that calls send_message is the run's first such call, made at
\* the send step.
SendStep ==
    sends' # sends => (sends = 0 /\ sends' = 1 /\ t_pc = "send")

\* C14: in a run of triage send_message is called at most once, and only
\* after the action chosen was reply, the edited draft was non-empty, the
\* user confirmed and dry_run is false, in that order; on every other path
\* (nothing to choose or chosen, empty transcript, action cancelled, copy,
\* export, empty draft, declined, dry run, an error of the backend, the
\* language model or the editor) it is never called.
C14_SendGuard ==
    /\ [](sends <= 1)
    /\ [](sends = 1 => SentInOrder)
    /\ [](NoSendPath => sends = 0)
    /\ [][SendStep]_vars

\* A run that read an invalid choice and then a reply, had the language
\* model draft, and sent the message.
C14_Witness ==
    /\ t_pc = "sent"
    /\ sends = 1
    /\ reads = 2
    /\ ~no_llm
    /\ SentInOrder

\* ------------------------------------- list_messages: the whole stream
\* The timestamps of the source's messages, page after page.
RECURSIVE StreamThrough(_)
StreamThrough(n) ==
    IF n = 0 THEN <<>>
    ELSE StreamThrough(n - 1) \o [j \in 1..Len(source[n]) |-> SrcTs(n, j)]

StreamTs == StreamThrough(Len(source))

NewestFirst == \A i \in 1..(Len(StreamTs) - 1) : StreamTs[i] >= StreamTs[i + 1]
OldestFirst == \A i \in 1..(Len(StreamTs) - 1) : StreamTs[i] <= StreamTs[i + 1]

\* Every page holds at least one message, but for an empty page that ends
\* the stream.
PagesOfOneOrMore ==
    \A p \in 1..Len(source) : source[p] = <<>> => p = Len(source)

\* C15: with no limit, a call on a stream sorted by time in one direction
\* (newest first or oldest first), cut into pages of one message or more and
\* ended by exhaustion or an empty page, returns every message of the stream
\* that is not older than since_ms: stopping at a page taken for descending
\* loses no message a later page holds.
C15_NothingDropped ==
    (/\ op = "list_messages" /\ pc = "returned" /\ NoLimit
     /\ NewestFirst \/ OldestFirst
     /\ PagesOfOneOrMore) =>
        ResultIds = AllKept

\* The part of C15 about streams that are newest first.
NewestFirstComplete ==
    (/\ op = "list_messages" /\ pc = "returned" /\ NoLimit
     /\ NewestFirst
     /\ PagesOfOneOrMore) =>
        ResultIds = AllKept

\* ------------------------------------------ list_messages: the re-check
\* The condition of the re-check, read off the raw page: since_ms is set,
\* the page is descending and holds a message older than since_ms.
RecheckHolds ==
    /\ SinceSet
    /\ yielded >= 1
    /\ source[yielded] # <<>>
    /\ ClaimDescending(yielded)
    /\ FirstBelow(yielded) >= 1

\* The check before the re-check leaves the loop: the limit is reached or
\* the scan stopped at an older message.
LeftAlready ==
    \/ stopped_for_since
    \/ ~NoLimit /\ Len(results) >= limit.val

\* The turn of the loop after a page in a list_messages without the
\* re-check.
PostPageWithoutRecheck ==
    /\ pc' = IF LeftAlready THEN "returned" ELSE "iter"
    /\ UNCHANGED <<op, source, limit, since_ms, results, stopped_for_since,
                   yielded, requests, normalized, idx, sdk_failed, exc>>

\* C16: the re-check after a page never decides: whenever its condition
\* holds the loop is left at the check before it (limit reached or scan
\* stopped), so every turn of the loop is one a list_messages without the
\* re-check takes too, with the same result and the same pages fetched.
C16_RecheckRedundant ==
    [][pc = "post" =>
          /\ RecheckHolds => LeftAlready
          /\ PostPageWithoutRecheck]_vars

\* A call returned by its limit after a descending page that holds an
\* older message the scan never reached: the re-check's condition held and
\* the limit had left the loop before it.
C16_Witness ==
    /\ op = "list_messages" /\ pc = "returned"
    /\ RecheckHolds
    /\ ~stopped_for_since
    /\ ~NoLimit /\ Len(results) = limit.val
    /\ yielded < Len(source)

====
